---- MODULE Spec2Model ----
(***************************************************************************)
(* A model of bblua's file-discovery engine: the pattern matcher           *)
(* (src/src/glob.cc), the directory cache and the glob engine              *)
(* (src/src/dircache.cc, src/src/dircache.h) and the multi-pattern         *)
(* aggregation lua_glob (src/src/glob.cc).                                 *)
(*                                                                         *)
(* A path is a sequence of one-character strings, <<"d", "/", "b">> for    *)
(* "d/b".  Path (path.h) and ThreadPool (threadpool.h) are not part of the *)
(* sources at hand; they are modelled from their documented contracts.     *)
(***************************************************************************)
EXTENDS Integers, Sequences, FiniteSets, TLC

VARIABLES
    \* ---- DirCache and its environment (dircache.h:40-48) ----
    fs,             \* the directory tree on disk: normalized path -> raw readdir entries
    poolSize,       \* number of worker threads of _pool
    _cache,         \* DirCache::_cache: normalized path -> DirEntries
    _mutex,         \* DirCache::_mutex: the thread holding it, or NoThread
    depsInputs,     \* ImplicitDeps::addInput calls: normalized path -> number of calls
    fsReads,        \* ::dirEntries calls: normalized path -> number of listings from disk
    queue,          \* ThreadPool: tasks submitted and not yet taken by a worker
    stack,          \* per thread: the operations it still has to perform, in program order
    delivered,      \* the caller's callback: (path, isDir) -> number of invocations in this glob
    globCalls,      \* number of top-level glob() (or direct dirEntries()) calls made so far
    globPath,       \* the path argument of the current (or last) top-level glob() call
    \* ---- lua_glob (glob.cc:141-291) ----
    pc,             \* position of lua_glob
    pool,           \* std::string pool
    poolIncludes,   \* std::vector<PoolEntry>: (offset, length) pairs
    poolExcludes,
    inclArgs,       \* the paths the include callback was invoked with, in order
    exclArgs,       \* the paths the exclude callback was invoked with, in order
    includes,       \* std::vector<Path> includes
    excludes,       \* std::vector<Path> excludes
    includesIter,   \* index into includes; Len(includes)+1 is end()
    excludesIter,
    result,         \* the Lua table under construction, as a sequence
    ub,             \* TRUE once the run has executed undefined behaviour
    luaCalls,       \* number of lua_glob calls the script has made so far
    firstArgs,      \* the callback arguments of the script's first lua_glob call
    firstResult,    \* the table the script's first lua_glob call returned
    \* ---- a caller of globMatch (glob.cc:125-131) ----
    matchPath,      \* the path argument
    matchPattern,   \* the pattern argument
    matchPc,        \* "call" before globMatch is applied, "done" after
    matched,        \* the value globMatch returned
    \* ---- the callbacks of lua_glob, statement by statement (glob.cc:156-178) ----
    mutex,          \* std::mutex mutex: the thread holding it, or NoThread
    frame           \* per thread: the callback invocation it executes, if any

engineVars == <<fs, poolSize, _cache, _mutex, depsInputs, fsReads, queue, stack,
                delivered, globCalls, globPath>>
aggVars == <<pc, pool, poolIncludes, poolExcludes, inclArgs, exclArgs, includes,
             excludes, includesIter, excludesIter, result, ub>>
scriptVars == <<luaCalls, firstArgs, firstResult>>
matchVars == <<matchPath, matchPattern, matchPc, matched>>
accVars == <<mutex, frame>>
vars == <<engineVars, aggVars, scriptVars, matchVars, accVars>>

(***************************************************************************)
(* Bounds of the model.                                                    *)
(***************************************************************************)
MaxMatches == 4     \* callback invocations during one lua_glob call
MaxWorkers == 2     \* largest pool size explored
MaxGlobs == 2       \* top-level glob() calls over the cache's lifetime
MaxLookups == 3     \* direct dirEntries() calls over the cache's lifetime
MaxDepth == 3       \* depth of the directory trees
MaxPathLen == 3     \* length of the paths handed to globMatch
MaxPatternLen == 4  \* length of the patterns handed to globMatch
MaxScriptMatches == 3   \* callback invocations during a lua_glob call that is repeated
MaxCallbacks == 3   \* callback invocations that threads make concurrently

(***************************************************************************)
(* Characters.  Alphabet lists the characters of the model in ASCII order, *)
(* so that Code preserves the order of the char values charCmp subtracts.  *)
(***************************************************************************)
Alphabet == <<"!", "*", ".", "/", "?", "[", "]", "a", "b", "d", "e", "x">>

Code(c) == CHOOSE i \in 1..Len(Alphabet) : Alphabet[i] = c

\* charCmp<true>: the POSIX build compares case-sensitively.
charCmp(a, b) == Code(a) - Code(b)

(***************************************************************************)
(* Path (path.h), from its contract: ordinal comparison, split, join, norm *)
(***************************************************************************)
\* the sign of the bytewise lexicographic comparison of two strings
RECURSIVE lexCmp(_, _)
lexCmp(a, b) ==
    IF a = <<>> /\ b = <<>> THEN 0
    ELSE IF a = <<>> THEN -1
    ELSE IF b = <<>> THEN 1
    ELSE IF charCmp(Head(a), Head(b)) # 0 THEN charCmp(Head(a), Head(b))
    ELSE lexCmp(Tail(a), Tail(b))

\* Path::compare
compare(a, b) == lexCmp(a, b)

\* Path(): the value-initialised element of a std::vector<Path>(n)
DefaultPath == <<>>

isSep(c) == c = "/"

\* index of the last separator of p, 0 when there is none
LastSep(p) ==
    LET S == {i \in 1..Len(p) : isSep(p[i])}
    IN IF S = {} THEN 0 ELSE CHOOSE i \in S : \A j \in S : j <= i

\* Path::split(): tail is the final component, head everything before it
split(p) ==
    LET k == LastSep(p)
    IN IF k = 0 THEN [head |-> <<>>, tail |-> p]
       ELSE [head |-> SubSeq(p, 1, k - 1), tail |-> SubSeq(p, k + 1, Len(p))]

\* Path::join(buf): append p to buf, with a separator between them
join(buf, p) ==
    IF buf = <<>> \/ isSep(buf[Len(buf)]) THEN buf \o p
    ELSE buf \o <<"/">> \o p

\* the components of p, empty components included
RECURSIVE Components(_)
Components(p) ==
    LET S == {i \in 1..Len(p) : isSep(p[i])}
    IN IF S = {} THEN <<p>>
       ELSE LET k == CHOOSE i \in S : \A j \in S : i <= j
            IN <<SubSeq(p, 1, k - 1)>> \o Components(SubSeq(p, k + 1, Len(p)))

RECURSIVE JoinAll(_)
JoinAll(cs) ==
    IF cs = <<>> THEN <<>>
    ELSE IF Len(cs) = 1 THEN cs[1]
    ELSE cs[1] \o <<"/">> \o JoinAll(Tail(cs))

\* Path::norm(): the canonical string; "." and empty components are dropped,
\* the empty path is ".".
norm(p) ==
    LET keep == SelectSeq(Components(p), LAMBDA c : c # <<>> /\ c # <<".">>)
    IN IF keep = <<>> THEN <<".">> ELSE JoinAll(keep)

(***************************************************************************)
(* std::sort and std::unique over a std::vector<Path> (glob.cc:243-250)    *)
(***************************************************************************)
RECURSIVE InsertPath(_, _)
InsertPath(x, s) ==
    IF s = <<>> THEN <<x>>
    ELSE IF compare(x, Head(s)) <= 0 THEN <<x>> \o s
    ELSE <<Head(s)>> \o InsertPath(x, Tail(s))

RECURSIVE SortPaths(_)
SortPaths(s) == IF s = <<>> THEN <<>> ELSE InsertPath(Head(s), SortPaths(Tail(s)))

RECURSIVE UniquePaths(_)
UniquePaths(s) ==
    IF Len(s) <= 1 THEN s
    ELSE IF compare(s[1], s[2]) = 0 THEN UniquePaths(Tail(s))
    ELSE <<s[1]>> \o UniquePaths(Tail(s))

(***************************************************************************)
(* lua_glob (glob.cc:141-291): the multi-pattern aggregation.              *)
(*                                                                         *)
(* The calls of DirCache::glob in the argument loop (glob.cc:196-226)      *)
(* reach lua_glob as invocations of its two callbacks; every path of       *)
(* AggPaths can be delivered (a literal pattern delivers itself).          *)
(***************************************************************************)
AggPaths == {<<>>, <<"a">>, <<"a", "b">>, <<"b">>}

\* what a read past the end of the includes vector can yield: any Path
GarbagePaths == AggPaths \cup {<<"!">>}

\* mapPool (glob.cc:234-236): the bytes of the pool at a zero-based (offset, length)
mapPool(e) == SubSeq(pool, e[1] + 1, e[1] + e[2])

\* the body of both callbacks (glob.cc:163-178), run under the accumulator mutex:
\* pos = pool.length(); pool.append(path); list.emplace_back(pos, path.length)
Record(list, path) == Append(list, <<Len(pool), Len(path)>>)

\* MatchCallback include (glob.cc:163-169)
include(path) ==
    /\ pc = "glob"
    /\ Len(poolIncludes) + Len(poolExcludes) < MaxMatches
    /\ pool' = pool \o path
    /\ poolIncludes' = Record(poolIncludes, path)
    /\ inclArgs' = Append(inclArgs, path)
    /\ UNCHANGED <<pc, poolExcludes, exclArgs, includes, excludes, includesIter,
                   excludesIter, result, ub>>
    /\ UNCHANGED <<engineVars, scriptVars, matchVars, accVars>>

\* MatchCallback exclude (glob.cc:172-178)
exclude(path) ==
    /\ pc = "glob"
    /\ Len(poolIncludes) + Len(poolExcludes) < MaxMatches
    /\ pool' = pool \o path
    /\ poolExcludes' = Record(poolExcludes, path)
    /\ exclArgs' = Append(exclArgs, path)
    /\ UNCHANGED <<pc, poolIncludes, inclArgs, includes, excludes, includesIter,
                   excludesIter, result, ub>>
    /\ UNCHANGED <<engineVars, scriptVars, matchVars, accVars>>

\* std::vector<Path> includes(poolIncludes.size()) filled by std::transform
\* (glob.cc:231, 238)
BuildIncludes == [i \in 1..Len(poolIncludes) |-> mapPool(poolIncludes[i])]

\* std::vector<Path> excludes(poolIncludes.size()) filled by std::transform
\* (glob.cc:232, 239): the vector has the length of poolIncludes; entries that
\* std::transform does not reach stay Path(), entries beyond the vector's end
\* are written outside it.
BuildExcludes ==
    [i \in 1..Len(poolIncludes) |->
        IF i <= Len(poolExcludes) THEN mapPool(poolExcludes[i]) ELSE DefaultPath]

\* std::transform writes past excludes.end() (glob.cc:239)
ExcludesOverflow == Len(poolExcludes) > Len(poolIncludes)

\* glob.cc:228-260: build both lists, sort them, drop duplicates, start the merge.
\* A write outside the excludes vector is undefined: the run crashes or goes on.
BuildLists ==
    /\ pc = "glob"
    /\ includes' = UniquePaths(SortPaths(BuildIncludes))
    /\ excludes' = UniquePaths(SortPaths(BuildExcludes))
    /\ includesIter' = 1
    /\ excludesIter' = 1
    /\ result' = <<>>
    /\ ub' = (ub \/ ExcludesOverflow)
    /\ \E next \in (IF ExcludesOverflow THEN {"merge", "crashed"} ELSE {"merge"}) :
            pc' = next
    /\ UNCHANGED <<pool, poolIncludes, poolExcludes, inclArgs, exclArgs>>
    /\ UNCHANGED <<engineVars, scriptVars, matchVars, accVars>>

\* the value read through includesIter at index i (glob.cc:268): an element of
\* the vector, or, at end(), whatever lies behind it
ReadIncludes(i) == IF i <= Len(includes) THEN {includes[i]} ELSE GarbagePaths

\* one iteration of the lockstep loop (glob.cc:262-281)
MergeStep ==
    /\ pc = "merge"
    /\ includesIter <= Len(includes)
    /\ excludesIter <= Len(excludes)
    /\ LET c == compare(includes[includesIter], excludes[excludesIter])
       IN IF c < 0
          THEN \* ++includesIter comes before the element is pushed
               /\ includesIter' = includesIter + 1
               /\ \E p \in ReadIncludes(includesIter + 1) : result' = Append(result, p)
               /\ ub' = (ub \/ includesIter + 1 > Len(includes))
               /\ UNCHANGED excludesIter
          ELSE IF c > 0
          THEN /\ excludesIter' = excludesIter + 1
               /\ UNCHANGED <<includesIter, result, ub>>
          ELSE /\ includesIter' = includesIter + 1
               /\ excludesIter' = excludesIter + 1
               /\ UNCHANGED <<result, ub>>
    /\ UNCHANGED <<pc, pool, poolIncludes, poolExcludes, inclArgs, exclArgs,
                   includes, excludes>>
    /\ UNCHANGED <<engineVars, scriptVars, matchVars, accVars>>

\* the read at end() faults instead of yielding a value (glob.cc:267-268)
MergeFault ==
    /\ pc = "merge"
    /\ includesIter <= Len(includes)
    /\ excludesIter <= Len(excludes)
    /\ compare(includes[includesIter], excludes[excludesIter]) < 0
    /\ includesIter + 1 > Len(includes)
    /\ pc' = "crashed"
    /\ ub' = TRUE
    /\ UNCHANGED <<pool, poolIncludes, poolExcludes, inclArgs, exclArgs, includes,
                   excludes, includesIter, excludesIter, result>>
    /\ UNCHANGED <<engineVars, scriptVars, matchVars, accVars>>

\* the lockstep loop ends (glob.cc:262)
MergeEnd ==
    /\ pc = "merge"
    /\ ~(includesIter <= Len(includes) /\ excludesIter <= Len(excludes))
    /\ pc' = "rest"
    /\ UNCHANGED <<pool, poolIncludes, poolExcludes, inclArgs, exclArgs, includes,
                   excludes, includesIter, excludesIter, result, ub>>
    /\ UNCHANGED <<engineVars, scriptVars, matchVars, accVars>>

\* one iteration of the left-over loop (glob.cc:284-288)
Leftover ==
    /\ pc = "rest"
    /\ includesIter <= Len(includes)
    /\ result' = Append(result, includes[includesIter])
    /\ includesIter' = includesIter + 1
    /\ UNCHANGED <<pc, pool, poolIncludes, poolExcludes, inclArgs, exclArgs,
                   includes, excludes, excludesIter, ub>>
    /\ UNCHANGED <<engineVars, scriptVars, matchVars, accVars>>

\* return 1 (glob.cc:290)
Return ==
    /\ pc = "rest"
    /\ includesIter > Len(includes)
    /\ pc' = "done"
    /\ UNCHANGED <<pool, poolIncludes, poolExcludes, inclArgs, exclArgs, includes,
                   excludes, includesIter, excludesIter, result, ub>>
    /\ UNCHANGED <<engineVars, scriptVars, matchVars, accVars>>

AggInit ==
    /\ pc = "glob"
    /\ pool = <<>>
    /\ poolIncludes = <<>>
    /\ poolExcludes = <<>>
    /\ inclArgs = <<>>
    /\ exclArgs = <<>>
    /\ includes = <<>>
    /\ excludes = <<>>
    /\ includesIter = 1
    /\ excludesIter = 1
    /\ result = <<>>
    /\ ub = FALSE

AggNext ==
    \/ \E path \in AggPaths : include(path)
    \/ \E path \in AggPaths : exclude(path)
    \/ BuildLists
    \/ MergeStep
    \/ MergeFault
    \/ MergeEnd
    \/ Leftover
    \/ Return

(***************************************************************************)
(* The pattern matcher (glob.cc:37-131)                                    *)
(***************************************************************************)
\* globMatchAt without the test for a missing "]" (glob.cc:96-97): the class
\* then runs to the end of the pattern
RECURSIVE globMatchAtUnclosed(_, _, _, _)
globMatchAtUnclosed(path, pattern, i, j) ==
    IF j >= Len(pattern) THEN i = Len(path)
    ELSE LET c == pattern[j + 1]
         IN CASE c = "?" ->
                    IF i = Len(path) THEN FALSE
                    ELSE globMatchAtUnclosed(path, pattern, i + 1, j + 1)
              [] c = "*" ->
                    IF j + 1 = Len(pattern) THEN TRUE
                    ELSE \E k \in i..(Len(path) - 1) :
                            globMatchAtUnclosed(SubSeq(path, k + 1, Len(path)),
                                        SubSeq(pattern, j + 2, Len(pattern)), 0, 0)
              [] c = "[" ->
                    IF i = Len(path) THEN FALSE
                    ELSE IF j + 1 = Len(pattern) THEN FALSE
                    ELSE LET invert == pattern[j + 2] = "!"
                             first == IF invert THEN j + 2 ELSE j + 1
                             closing == {e \in first..(Len(pattern) - 1) :
                                            pattern[e + 1] = "]"}
                         IN IF first = Len(pattern) THEN FALSE
                            ELSE LET end == IF closing = {} THEN Len(pattern)
                                            ELSE CHOOSE e \in closing :
                                                    \A f \in closing : e <= f
                                     match == \E q \in first..(end - 1) :
                                                charCmp(path[i + 1], pattern[q + 1]) = 0
                                 IN IF match = invert THEN FALSE
                                    ELSE globMatchAtUnclosed(path, pattern, i + 1, end + 1)
              [] OTHER ->
                    IF i = Len(path) \/ charCmp(path[i + 1], c) # 0 THEN FALSE
                    ELSE globMatchAtUnclosed(path, pattern, i + 1, j + 1)

\* globMatch<true> resumed at path index i and pattern index j (both zero-based):
\* one iteration of the for loop over the pattern, then the rest of it
RECURSIVE globMatchAt(_, _, _, _)
globMatchAt(path, pattern, i, j) ==
    IF j >= Len(pattern) THEN i = Len(path)
    ELSE LET c == pattern[j + 1]
         IN CASE c = "?" ->
                    IF i = Len(path) THEN FALSE
                    ELSE globMatchAt(path, pattern, i + 1, j + 1)
              [] c = "*" ->
                    IF j + 1 = Len(pattern) THEN TRUE
                    ELSE \E k \in i..(Len(path) - 1) :
                            globMatchAt(SubSeq(path, k + 1, Len(path)),
                                        SubSeq(pattern, j + 2, Len(pattern)), 0, 0)
              [] c = "[" ->
                    IF i = Len(path) THEN FALSE
                    ELSE IF j + 1 = Len(pattern) THEN FALSE
                    ELSE LET invert == pattern[j + 2] = "!"
                             first == IF invert THEN j + 2 ELSE j + 1
                             closing == {e \in first..(Len(pattern) - 1) :
                                            pattern[e + 1] = "]"}
                         IN IF first = Len(pattern) THEN FALSE
                            ELSE IF closing = {} THEN FALSE
                            ELSE LET end == CHOOSE e \in closing :
                                                \A f \in closing : e <= f
                                     match == \E q \in first..(end - 1) :
                                                charCmp(path[i + 1], pattern[q + 1]) = 0
                                 IN IF match = invert THEN FALSE
                                    ELSE globMatchAt(path, pattern, i + 1, end + 1)
              [] OTHER ->
                    IF i = Len(path) \/ charCmp(path[i + 1], c) # 0 THEN FALSE
                    ELSE globMatchAt(path, pattern, i + 1, j + 1)

\* bool globMatch(Path path, Path pattern) (glob.cc:125-131), POSIX build
globMatch(path, pattern) == globMatchAt(path, pattern, 0, 0)

(***************************************************************************)
(* Directory listings (dircache.cc:24-151)                                 *)
(***************************************************************************)
\* operator<(DirEntry, DirEntry): std::tie(name, isDir), false before true
EntryLess(a, b) ==
    \/ lexCmp(a.name, b.name) < 0
    \/ lexCmp(a.name, b.name) = 0 /\ ~a.isDir /\ b.isDir

isDotOrDotDot(name) == name = <<".">> \/ name = <<".", ".">>

RECURSIVE InsertEntry(_, _)
InsertEntry(x, s) ==
    IF s = <<>> THEN <<x>>
    ELSE IF ~EntryLess(Head(s), x) THEN <<x>> \o s
    ELSE <<Head(s)>> \o InsertEntry(x, Tail(s))

\* std::sort(entries.begin(), entries.end()) (dircache.cc:125)
RECURSIVE SortEntries(_)
SortEntries(s) ==
    IF s = <<>> THEN <<>> ELSE InsertEntry(Head(s), SortEntries(Tail(s)))

File(n) == [name |-> n, isDir |-> FALSE]
Dir(n) == [name |-> n, isDir |-> TRUE]
Dots == {Dir(<<".">>), Dir(<<".", ".">>)}

\* The directory trees explored: what readdir yields for each directory that
\* opendir can open, by normalized path.
\*   TreeSmall:  ./{a, d/{b}}
\*   TreeDeep:   ./{a, d/{b, e/{a}}, e/{}}
TreeSmall ==
    (<<".">> :> (Dots \cup {File(<<"a">>), Dir(<<"d">>)})) @@
    (<<"d">> :> (Dots \cup {File(<<"b">>)}))

TreeDeep ==
    (<<".">> :> (Dots \cup {File(<<"a">>), Dir(<<"d">>), Dir(<<"e">>)})) @@
    (<<"d">> :> (Dots \cup {File(<<"b">>), Dir(<<"e">>)})) @@
    (<<"d", "/", "e">> :> (Dots \cup {File(<<"a">>)})) @@
    (<<"e">> :> Dots)

Trees == {TreeSmall, TreeDeep}

\* every order in which readdir can enumerate the entries S
RECURSIVE ReaddirOrders(_)
ReaddirOrders(S) ==
    IF S = {} THEN {<<>>}
    ELSE UNION {{<<x>> \o rest : rest \in ReaddirOrders(S \ {x})} : x \in S}

\* ::dirEntries without the std::sort of dircache.cc:125
ListDirUnsorted(order) == SelectSeq(order, LAMBDA e : ~isDotOrDotDot(e.name))

\* ::dirEntries(path) (dircache.cc:49-128) for one enumeration order: a directory
\* that cannot be opened lists as empty; "." and ".." are skipped; the entries
\* are sorted.
ListDir(order) ==
    SortEntries(SelectSeq(order, LAMBDA e : ~isDotOrDotDot(e.name)))

\* the enumerations readdir can produce for the directory path
Enumerations(path) ==
    IF path \in DOMAIN fs THEN ReaddirOrders(fs[path]) ELSE {<<>>}

\* isGlobPattern (dircache.cc:133-144)
isGlobPattern(p) == \E i \in 1..Len(p) : p[i] \in {"?", "*", "["}

\* isRecursiveGlob (dircache.cc:149-151)
isRecursiveGlob(p) == Len(p) = 2 /\ p[1] = "*" /\ p[2] = "*"

(***************************************************************************)
(* The glob engine (dircache.cc:153-289).                                  *)
(*                                                                         *)
(* A thread's stack holds the operations it still has to perform, first    *)
(* one first; a call replaces the calling operation by the operations of   *)
(* the callee's body.  A callback is the caller's callback when cont is    *)
(* empty; otherwise it is the lambda of glob (dircache.cc:233-235) that    *)
(* expands the pattern component Head(cont) below each directory and       *)
(* passes the matches on to the callback Tail(cont).                       *)
(***************************************************************************)
Main == 0                           \* the thread that calls glob()
NoThread == -1                      \* _mutex is free
Workers == 1..poolSize
Threads == {Main} \cup (1..MaxWorkers)

\* SCRIPT_DIR, "." when it is not set (glob.cc:182-189)
Root == <<".">>

\* DirCache dirCache(&deps) (button-lua.cc:180): there is a dependency sink
_deps == TRUE

CbOp(path, isDir, cont) ==
    [op |-> "callback", path |-> path, isDir |-> isDir, cont |-> cont]
EnqOp(path, cont) == [op |-> "enqueueTask", path |-> path, cont |-> cont]
WaitOp == [op |-> "waitAll"]
\* a call of dirEntries(const std::string& buf), at its first step, and what the
\* caller does with the listing: the loop of globRecursive ("recursive") or of
\* the pattern helper ("pattern") over path, or nothing ("direct")
LookupOp(buf, kind, path, pattern, cont) ==
    [op |-> "lock", buf |-> buf, kind |-> kind, path |-> path, pattern |-> pattern,
     cont |-> cont]
\* dirEntries has returned entries to a direct caller
ReturnOp(buf, entries, hit) ==
    [op |-> "return", buf |-> buf, entries |-> entries, hit |-> hit]

\* dirEntries(Path root, Path dir) (dircache.cc:266-270): join, then look up
JoinRoot(dir) == join(Root, dir)

\* globRecursive without the match for the directory it starts at
RecOpsNoSelf(path, cont) ==
    <<LookupOp(JoinRoot(path), "recursive", path, <<>>, cont)>>

\* globRecursive (dircache.cc:198-206), up to its call of dirEntries
RecOps(path, cont) ==
    <<CbOp(path, TRUE, cont), LookupOp(JoinRoot(path), "recursive", path, <<>>, cont)>>

\* DirCache::glob(root, path, pattern, callback) (dircache.cc:173-184), up to
\* its call of dirEntries
HelpOps(path, pattern, cont) ==
    IF Len(pattern) = 0 THEN <<CbOp(join(path, pattern), TRUE, cont)>>
    ELSE <<LookupOp(JoinRoot(path), "pattern", path, pattern, cont)>>

\* the loop of globRecursive over the listing (dircache.cc:206-220)
RECURSIVE RecLoop(_, _, _)
RecLoop(path, entries, cont) ==
    IF entries = <<>> THEN <<>>
    ELSE LET entry == Head(entries)
             child == join(path, entry.name)
         IN <<CbOp(child, entry.isDir, cont)>>
            \o (IF entry.isDir THEN <<EnqOp(child, cont)>> ELSE <<>>)
            \o RecLoop(path, Tail(entries), cont)

\* the loop of the pattern helper without buf.resize(path.length)
\* (dircache.cc:190): a match stays in the buffer
RECURSIVE HelpLoopNoReset(_, _, _, _)
HelpLoopNoReset(path, pattern, entries, cont) ==
    IF entries = <<>> THEN <<>>
    ELSE LET entry == Head(entries)
         IN IF globMatch(entry.name, pattern)
            THEN <<CbOp(join(path, entry.name), entry.isDir, cont)>>
                 \o HelpLoopNoReset(join(path, entry.name), pattern, Tail(entries), cont)
            ELSE HelpLoopNoReset(path, pattern, Tail(entries), cont)

\* the loop of the pattern helper over the listing (dircache.cc:184-192)
RECURSIVE HelpLoop(_, _, _, _)
HelpLoop(path, pattern, entries, cont) ==
    IF entries = <<>> THEN <<>>
    ELSE LET entry == Head(entries)
         IN (IF globMatch(entry.name, pattern)
             THEN <<CbOp(join(path, entry.name), entry.isDir, cont)>>
             ELSE <<>>)
            \o HelpLoop(path, pattern, Tail(entries), cont)

\* what the caller of dirEntries does with the listing it got
LoopOps(o, entries, hit) ==
    IF o.kind = "recursive" THEN RecLoop(o.path, entries, o.cont)
    ELSE IF o.kind = "pattern" THEN HelpLoop(o.path, o.pattern, entries, o.cont)
    ELSE <<ReturnOp(o.buf, entries, hit)>>

\* glob that looks a literal final component up in the directory listing
RECURSIVE GlobOpsChecked(_, _)
GlobOpsChecked(path, cont) ==
    LET s == split(path)
    IN (IF isGlobPattern(s.head) THEN GlobOpsChecked(s.head, <<s.tail>> \o cont)
        ELSE IF isRecursiveGlob(s.tail) THEN RecOps(s.head, cont)
        ELSE HelpOps(s.head, s.tail, cont))
       \o <<WaitOp>>

\* DirCache::glob(root, path, callback) (dircache.cc:226-257)
RECURSIVE GlobOps(_, _)
GlobOps(path, cont) ==
    LET s == split(path)
    IN (IF isGlobPattern(s.head) THEN GlobOps(s.head, <<s.tail>> \o cont)
        ELSE IF isRecursiveGlob(s.tail) THEN RecOps(s.head, cont)
        ELSE IF isGlobPattern(s.tail) THEN HelpOps(s.head, s.tail, cont)
        ELSE IF Len(s.tail) > 0 THEN <<CbOp(path, FALSE, cont)>>
        ELSE <<CbOp(s.head, TRUE, cont)>>)
       \o <<WaitOp>>

\* the patterns the caller globs for
GlobPaths ==
    { <<"a">>, <<"d", "/">>, <<"x", "/", "b">>,
      <<"*">>, <<"d", "/", "*">>, <<".", "/", "d", "/", "?">>, <<"x", "/", "*">>,
      <<"*", "*">>, <<"d", "/", "*", "*">>, <<"x", "/", "*", "*">>,
      <<"*", "/", "b">>, <<"*", "*", "/", "*">>, <<"*", "/", "*", "*">>,
      <<"*", "/">> }

Running(t) == stack[t] # <<>>
Top(t) == Head(stack[t])
\* thread t replaces its current operation by the operations ops
Continue(t, ops) == stack' = [stack EXCEPT ![t] = ops \o Tail(stack[t])]

BagAdd(b, x) == IF x \in DOMAIN b THEN [b EXCEPT ![x] = @ + 1] ELSE b @@ (x :> 1)
Count(b, x) == IF x \in DOMAIN b THEN b[x] ELSE 0

\* the caller invokes glob(root, path, callback)
CallGlob(path) ==
    /\ ~Running(Main)
    /\ globCalls < MaxGlobs
    /\ globCalls' = globCalls + 1
    /\ globPath' = path
    /\ delivered' = <<>>
    /\ stack' = [stack EXCEPT ![Main] = GlobOps(path, <<>>)]
    /\ UNCHANGED <<fs, poolSize, _cache, _mutex, depsInputs, fsReads, queue>>
    /\ UNCHANGED <<aggVars, scriptVars, matchVars, accVars>>

\* the lambda of glob without its test of isDir (dircache.cc:234): the rest of
\* the pattern is expanded under every match of head
CallbackAnyEntry(t) ==
    /\ Running(t)
    /\ Top(t).op = "callback"
    /\ IF Top(t).cont = <<>>
       THEN /\ delivered' = BagAdd(delivered, <<Top(t).path, Top(t).isDir>>)
            /\ Continue(t, <<>>)
       ELSE /\ UNCHANGED delivered
            /\ Continue(t, HelpOps(Top(t).path, Head(Top(t).cont), Tail(Top(t).cont)))
    /\ UNCHANGED <<fs, poolSize, _cache, _mutex, depsInputs, fsReads, queue,
                   globCalls, globPath>>
    /\ UNCHANGED <<aggVars, scriptVars, matchVars, accVars>>

\* callback(path, isDir): the caller's callback records the match; the lambda of
\* glob (dircache.cc:233-235) calls the pattern helper for a directory
Callback(t) ==
    /\ Running(t)
    /\ Top(t).op = "callback"
    /\ IF Top(t).cont = <<>>
       THEN /\ delivered' = BagAdd(delivered, <<Top(t).path, Top(t).isDir>>)
            /\ Continue(t, <<>>)
       ELSE /\ UNCHANGED delivered
            /\ IF Top(t).isDir
               THEN Continue(t, HelpOps(Top(t).path, Head(Top(t).cont), Tail(Top(t).cont)))
               ELSE Continue(t, <<>>)
    /\ UNCHANGED <<fs, poolSize, _cache, _mutex, depsInputs, fsReads, queue,
                   globCalls, globPath>>
    /\ UNCHANGED <<aggVars, scriptVars, matchVars, accVars>>

\* a lookup that does not wait for the mutex
AcquireUnguarded(t) == _mutex' = t

\* std::lock_guard<std::mutex> lock(_mutex) (dircache.cc:276)
Acquire(t) == _mutex = NoThread /\ _mutex' = t

\* DirCache::dirEntries (dircache.cc:272-276): normalize, take the mutex
Lock(t) ==
    /\ Running(t)
    /\ Top(t).op = "lock"
    /\ Acquire(t)
    /\ Continue(t, <<[Top(t) EXCEPT !.op = "find"]>>)
    /\ UNCHANGED <<fs, poolSize, _cache, depsInputs, fsReads, queue, delivered,
                   globCalls, globPath>>
    /\ UNCHANGED <<aggVars, scriptVars, matchVars, accVars>>

\* auto normalized = Path(path).norm() (dircache.cc:274)
Key(o) == norm(o.buf)

\* a search of the cache for the path as given, not normalized
CacheHasRaw(o) == o.buf \in DOMAIN _cache

\* _cache.find(normalized) != _cache.end() (dircache.cc:279-280)
CacheHas(o) == Key(o) \in DOMAIN _cache

\* a lookup that returns from a hit without releasing the mutex
FindHolding(t) ==
    /\ Running(t)
    /\ Top(t).op = "find"
    /\ IF CacheHas(Top(t))
       THEN /\ Continue(t, LoopOps(Top(t), _cache[Key(Top(t))], TRUE))
            /\ UNCHANGED <<depsInputs, _mutex>>
       ELSE /\ depsInputs' = IF _deps THEN BagAdd(depsInputs, Key(Top(t)))
                             ELSE depsInputs
            /\ Continue(t, <<[Top(t) EXCEPT !.op = "list"]>>)
            /\ UNCHANGED _mutex
    /\ UNCHANGED <<fs, poolSize, _cache, fsReads, queue, delivered, globCalls, globPath>>
    /\ UNCHANGED <<aggVars, scriptVars, matchVars, accVars>>

\* a lookup that lists the directory again on a hit and stores the new listing
FindRefreshing(t) ==
    /\ Running(t)
    /\ Top(t).op = "find"
    /\ IF CacheHas(Top(t))
       THEN /\ _mutex' = NoThread
            /\ \E order \in Enumerations(Key(Top(t))) :
                    _cache' = [_cache EXCEPT ![Key(Top(t))] = ListDir(order)]
            /\ Continue(t, LoopOps(Top(t), _cache'[Key(Top(t))], TRUE))
            /\ UNCHANGED depsInputs
       ELSE /\ depsInputs' = IF _deps THEN BagAdd(depsInputs, Key(Top(t)))
                             ELSE depsInputs
            /\ Continue(t, <<[Top(t) EXCEPT !.op = "list"]>>)
            /\ UNCHANGED <<_mutex, _cache>>
    /\ UNCHANGED <<fs, poolSize, fsReads, queue, delivered, globCalls, globPath>>
    /\ UNCHANGED <<aggVars, scriptVars, matchVars, accVars>>

\* DirCache::dirEntries (dircache.cc:278-283): a hit returns the stored listing
\* and releases the mutex; a miss notifies the dependency sink
Find(t) ==
    /\ Running(t)
    /\ Top(t).op = "find"
    /\ IF CacheHas(Top(t))
       THEN /\ _mutex' = NoThread
            /\ Continue(t, LoopOps(Top(t), _cache[Key(Top(t))], TRUE))
            /\ UNCHANGED depsInputs
       ELSE /\ depsInputs' = IF _deps THEN BagAdd(depsInputs, Key(Top(t)))
                             ELSE depsInputs
            /\ Continue(t, <<[Top(t) EXCEPT !.op = "list"]>>)
            /\ UNCHANGED _mutex
    /\ UNCHANGED <<fs, poolSize, _cache, fsReads, queue, delivered, globCalls, globPath>>
    /\ UNCHANGED <<aggVars, scriptVars, matchVars, accVars>>

\* std::map::insert: an existing entry is kept
Insert(cache, key, entries) ==
    IF key \in DOMAIN cache THEN cache ELSE cache @@ (key :> entries)

\* DirCache::dirEntries (dircache.cc:285-289): list the directory, insert the
\* listing, return the stored listing and release the mutex
List(t) ==
    /\ Running(t)
    /\ Top(t).op = "list"
    /\ \E order \in Enumerations(Key(Top(t))) :
            /\ _cache' = Insert(_cache, Key(Top(t)), ListDir(order))
            /\ Continue(t, LoopOps(Top(t), _cache'[Key(Top(t))], FALSE))
    /\ fsReads' = BagAdd(fsReads, Key(Top(t)))
    /\ _mutex' = NoThread
    /\ UNCHANGED <<fs, poolSize, depsInputs, queue, delivered, globCalls, globPath>>
    /\ UNCHANGED <<aggVars, scriptVars, matchVars, accVars>>

\* a submission that overwrites the tasks still queued
EnqueueTaskReplacing(t) ==
    /\ Running(t)
    /\ Top(t).op = "enqueueTask"
    /\ queue' = <<[path |-> Top(t).path, cont |-> Top(t).cont]>>
    /\ Continue(t, <<>>)
    /\ UNCHANGED <<fs, poolSize, _cache, _mutex, depsInputs, fsReads, delivered,
                   globCalls, globPath>>
    /\ UNCHANGED <<aggVars, scriptVars, matchVars, accVars>>

\* _pool.enqueueTask(...) (dircache.cc:213-216)
EnqueueTask(t) ==
    /\ Running(t)
    /\ Top(t).op = "enqueueTask"
    /\ queue' = Append(queue, [path |-> Top(t).path, cont |-> Top(t).cont])
    /\ Continue(t, <<>>)
    /\ UNCHANGED <<fs, poolSize, _cache, _mutex, depsInputs, fsReads, delivered,
                   globCalls, globPath>>
    /\ UNCHANGED <<aggVars, scriptVars, matchVars, accVars>>

\* a worker of the pool takes the next task and starts it: the task copies the
\* path and calls globRecursive (dircache.cc:213-216)
StartTask(w) ==
    /\ w \in Workers
    /\ ~Running(w)
    /\ queue # <<>>
    /\ queue' = Tail(queue)
    /\ stack' = [stack EXCEPT ![w] = RecOps(Head(queue).path, Head(queue).cont)]
    /\ UNCHANGED <<fs, poolSize, _cache, _mutex, depsInputs, fsReads, delivered,
                   globCalls, globPath>>
    /\ UNCHANGED <<aggVars, scriptVars, matchVars, accVars>>

\* ThreadPool::waitAll(): no task is queued and no worker executes one
Quiescent == queue = <<>> /\ \A w \in Workers : ~Running(w)

\* glob returning without waiting for the pool
WaitAllNoBlock(t) ==
    /\ Running(t)
    /\ Top(t).op = "waitAll"
    /\ Continue(t, <<>>)
    /\ UNCHANGED <<fs, poolSize, _cache, _mutex, depsInputs, fsReads, queue,
                   delivered, globCalls, globPath>>
    /\ UNCHANGED <<aggVars, scriptVars, matchVars, accVars>>

\* _pool.waitAll() (dircache.cc:256), after which glob returns
WaitAll(t) ==
    /\ Running(t)
    /\ Top(t).op = "waitAll"
    /\ Quiescent
    /\ Continue(t, <<>>)
    /\ UNCHANGED <<fs, poolSize, _cache, _mutex, depsInputs, fsReads, queue,
                   delivered, globCalls, globPath>>
    /\ UNCHANGED <<aggVars, scriptVars, matchVars, accVars>>

\* a thread calls the public dirEntries(const std::string&) (dircache.h:57)
\* with one of these paths
LookupPaths == {<<".">>, <<"d">>, <<".", "/", "d">>, <<"x">>}

DirEntriesCall(t, buf) ==
    /\ ~Running(t)
    /\ t \in {Main} \cup Workers
    /\ globCalls < MaxLookups
    /\ globCalls' = globCalls + 1
    /\ stack' = [stack EXCEPT ![t] = <<LookupOp(buf, "direct", <<>>, <<>>, <<>>)>>]
    /\ UNCHANGED <<fs, poolSize, _cache, _mutex, depsInputs, fsReads, queue,
                   delivered, globPath>>
    /\ UNCHANGED <<aggVars, scriptVars, matchVars, accVars>>

\* the caller of dirEntries takes the listing returned to it
DirEntriesReturn(t) ==
    /\ Running(t)
    /\ Top(t).op = "return"
    /\ Continue(t, <<>>)
    /\ UNCHANGED <<fs, poolSize, _cache, _mutex, depsInputs, fsReads, queue,
                   delivered, globCalls, globPath>>
    /\ UNCHANGED <<aggVars, scriptVars, matchVars, accVars>>

EngineInit ==
    /\ fs \in Trees
    /\ poolSize \in 1..MaxWorkers
    /\ _cache = <<>>
    /\ _mutex = NoThread
    /\ depsInputs = <<>>
    /\ fsReads = <<>>
    /\ queue = <<>>
    /\ stack = [t \in Threads |-> <<>>]
    /\ delivered = <<>>
    /\ globCalls = 0
    /\ globPath = <<>>

\* the script has called lua_glob once
ScriptInit ==
    /\ luaCalls = 1
    /\ firstArgs = [incl |-> <<>>, excl |-> <<>>]
    /\ firstResult = <<>>

\* nobody calls globMatch on its own
MatchIdle ==
    /\ matchPath = <<>>
    /\ matchPattern = <<>>
    /\ matchPc = "done"
    /\ matched = TRUE

\* no thread is inside a callback of lua_glob
NoFrame == [pc |-> "idle", list |-> "include", path |-> <<>>, pos |-> 0]

AccInit ==
    /\ mutex = NoThread
    /\ frame = [t \in Threads |-> NoFrame]

Init == EngineInit /\ AggInit /\ ScriptInit /\ MatchIdle /\ AccInit

Next ==
    \/ \E path \in GlobPaths : CallGlob(path)
    \/ \E t \in Threads : Callback(t)
    \/ \E t \in Threads : Lock(t)
    \/ \E t \in Threads : Find(t)
    \/ \E t \in Threads : List(t)
    \/ \E t \in Threads : EnqueueTask(t)
    \/ \E w \in Threads : StartTask(w)
    \/ WaitAll(Main)

\* the glob engine: a caller that globs for up to MaxGlobs patterns, one after
\* the other, against one DirCache
Spec == Init /\ [][Next]_vars

\* the next step of thread t, whichever it is
ThreadStep(t) ==
    \/ Callback(t)
    \/ Lock(t)
    \/ Find(t)
    \/ List(t)
    \/ EnqueueTask(t)
    \/ StartTask(t)
    \/ WaitAll(t)

\* the glob engine under a fair scheduler: the calling thread and every worker
\* of the pool is an operating-system thread, which takes its next step when
\* that step stays possible
FairSpec == Spec /\ \A t \in Threads : WF_vars(ThreadStep(t))

CacheNext ==
    \/ \E t \in Threads : \E buf \in LookupPaths : DirEntriesCall(t, buf)
    \/ \E t \in Threads : Lock(t)
    \/ \E t \in Threads : Find(t)
    \/ \E t \in Threads : List(t)
    \/ \E t \in Threads : DirEntriesReturn(t)

\* the directory cache under concurrent callers of dirEntries
CacheSpec == Init /\ [][CacheNext]_vars

\* another process creates or removes files and directories: the tree on disk
\* becomes another one (what opendir and readdir see, dircache.cc:92-119)
DiskChange ==
    /\ fs' \in Trees \ {fs}
    /\ UNCHANGED <<poolSize, _cache, _mutex, depsInputs, fsReads, queue, stack,
                   delivered, globCalls, globPath>>
    /\ UNCHANGED <<aggVars, scriptVars, matchVars, accVars>>

DiskNext ==
    \/ CacheNext
    \/ DiskChange

\* the directory cache under concurrent callers, over a disk that changes
DiskSpec == Init /\ [][DiskNext]_vars

\* lua_glob's aggregation of the matches its callbacks receive; the engine
\* itself stays idle, so one tree and one pool size are enough
AggSpecInit == Init /\ fs = TreeSmall /\ poolSize = 1

AggSpec == AggSpecInit /\ [][AggNext]_vars

(***************************************************************************)
(* The two callbacks of lua_glob statement by statement (glob.cc:163-178),  *)
(* as the threads of DirCache::glob invoke them concurrently.               *)
(***************************************************************************)
\* a lock of the accumulator that does not wait for its holder
AccAcquireUnguarded(t) == mutex' = t

\* std::lock_guard<std::mutex> lock(mutex) (glob.cc:164, 173)
AccAcquire(t) == mutex = NoThread /\ mutex' = t

\* thread t invokes include(path) or exclude(path) during DirCache::glob
Invoke(t, list, path) ==
    /\ pc = "glob"
    /\ frame[t].pc = "idle"
    /\ Len(inclArgs) + Len(exclArgs) < MaxCallbacks
    /\ frame' = [frame EXCEPT ![t] = [pc |-> "lock", list |-> list, path |-> path, pos |-> 0]]
    /\ IF list = "include"
       THEN inclArgs' = Append(inclArgs, path) /\ UNCHANGED exclArgs
       ELSE exclArgs' = Append(exclArgs, path) /\ UNCHANGED inclArgs
    /\ UNCHANGED <<pc, pool, poolIncludes, poolExcludes, includes, excludes,
                   includesIter, excludesIter, result, ub, mutex>>
    /\ UNCHANGED <<engineVars, scriptVars, matchVars>>

\* std::lock_guard<std::mutex> lock(mutex) (glob.cc:164, 173)
AccLock(t) ==
    /\ frame[t].pc = "lock"
    /\ AccAcquire(t)
    /\ frame' = [frame EXCEPT ![t].pc = "pos"]
    /\ UNCHANGED <<aggVars, engineVars, scriptVars, matchVars>>

\* const size_t pos = pool.length() (glob.cc:166, 175)
ReadPos(t) ==
    /\ frame[t].pc = "pos"
    /\ frame' = [frame EXCEPT ![t].pc = "append", ![t].pos = Len(pool)]
    /\ UNCHANGED <<aggVars, engineVars, scriptVars, matchVars, mutex>>

\* pool.append(path.path, path.length) (glob.cc:167, 176)
PoolAppend(t) ==
    /\ frame[t].pc = "append"
    /\ pool' = pool \o frame[t].path
    /\ frame' = [frame EXCEPT ![t].pc = "emplace"]
    /\ UNCHANGED <<pc, poolIncludes, poolExcludes, inclArgs, exclArgs, includes,
                   excludes, includesIter, excludesIter, result, ub, mutex>>
    /\ UNCHANGED <<engineVars, scriptVars, matchVars>>

\* poolIncludes.emplace_back(pos, path.length) or the same for poolExcludes
\* (glob.cc:168, 177); the callback returns and its lock_guard releases the mutex
EmplaceBack(t) ==
    /\ frame[t].pc = "emplace"
    /\ LET e == <<frame[t].pos, Len(frame[t].path)>>
       IN IF frame[t].list = "include"
          THEN poolIncludes' = Append(poolIncludes, e) /\ UNCHANGED poolExcludes
          ELSE poolExcludes' = Append(poolExcludes, e) /\ UNCHANGED poolIncludes
    /\ mutex' = NoThread
    /\ frame' = [frame EXCEPT ![t] = NoFrame]
    /\ UNCHANGED <<pc, pool, inclArgs, exclArgs, includes, excludes, includesIter,
                   excludesIter, result, ub>>
    /\ UNCHANGED <<engineVars, scriptVars, matchVars>>

AccNext ==
    \/ \E t \in Threads : \E list \in {"include", "exclude"} : \E path \in AggPaths :
            Invoke(t, list, path)
    \/ \E t \in Threads : AccLock(t)
    \/ \E t \in Threads : ReadPos(t)
    \/ \E t \in Threads : PoolAppend(t)
    \/ \E t \in Threads : EmplaceBack(t)

\* the match accumulator of lua_glob under concurrent callbacks
AccSpec == AggSpecInit /\ [][AccNext]_vars

\* the characters of the names and of the patterns handed to globMatch
PathChars == {"a", "b"}
PatternChars == {"a", "?", "*", "[", "]", "!"}

SeqsUpTo(S, n) == UNION {[1..k -> S] : k \in 0..n}

\* a caller is about to apply globMatch to some path and some pattern
MatchInit ==
    /\ matchPath \in SeqsUpTo(PathChars, MaxPathLen)
    /\ matchPattern \in SeqsUpTo(PatternChars, MaxPatternLen)
    /\ matchPc = "call"
    /\ matched = FALSE

\* matched = globMatch(path, pattern)
GlobMatchCall ==
    /\ matchPc = "call"
    /\ matched' = globMatch(matchPath, matchPattern)
    /\ matchPc' = "done"
    /\ UNCHANGED <<matchPath, matchPattern, engineVars, aggVars, scriptVars, accVars>>

MatchSpecInit ==
    /\ EngineInit /\ fs = TreeSmall /\ poolSize = 1
    /\ AggInit /\ ScriptInit /\ AccInit
    /\ MatchInit

MatchNext == GlobMatchCall

\* the pattern matcher applied to every path and pattern within the bounds
MatchSpec == MatchSpecInit /\ [][MatchNext]_vars

(***************************************************************************)
(* Properties of the aggregation (AggSpec)                                 *)
(***************************************************************************)
Range(s) == {s[i] : i \in 1..Len(s)}

\* I' and E': the paths the include and the exclude patterns expanded to
IncludeMatches == Range(inclArgs)
ExcludeMatches == Range(exclArgs)

RECURSIVE SeqOfSet(_)
SeqOfSet(S) ==
    IF S = {} THEN <<>>
    ELSE LET x == CHOOSE y \in S : TRUE IN <<x>> \o SeqOfSet(S \ {x})

\* the sorted, duplicate-free sequence of the paths of S
SortedSeq(S) == SortPaths(SeqOfSet(S))

\* C1: set-difference law.  When lua_glob returns, the table is exactly the
\* sorted, deduplicated sequence of I' \ E'.
SetDifferenceLaw ==
    pc = "done" => result = SortedSeq(IncludeMatches \ ExcludeMatches)

\* C2: exclusion soundness.  When lua_glob returns, no path that an exclude
\* pattern matched is in the table.
ExclusionSound ==
    pc = "done" => Range(result) \cap ExcludeMatches = {}

\* C3: when lua_glob returns, the table is in strictly increasing path order
\* (sorted, no path twice).
ResultStrictlyIncreasing ==
    pc = "done" =>
        \A i \in 1..(Len(result) - 1) : compare(result[i], result[i + 1]) < 0

(***************************************************************************)
(* Properties of the directory cache (CacheSpec)                           *)
(***************************************************************************)
AtReturn(t) == Running(t) /\ Top(t).op = "return"

\* C4: the dependency sink is called exactly once for each distinct normalized
\* path that was looked up: never twice for a path, once for every path that is
\* cached or was returned to a caller (so never on a cache hit).
DepsNotifiedOnce ==
    /\ \A k \in DOMAIN depsInputs : depsInputs[k] = 1
    /\ \A k \in DOMAIN _cache : Count(depsInputs, k) = 1
    /\ \A t \in Threads : AtReturn(t) => Count(depsInputs, norm(Top(t).buf)) = 1

\* two callers looked up the same directory under different spellings; the
\* second one hit the cache, and the sink was called once
DepsHitReached ==
    \E t1, t2 \in Threads :
        /\ AtReturn(t1) /\ AtReturn(t2)
        /\ Top(t1).buf # Top(t2).buf
        /\ norm(Top(t1).buf) = norm(Top(t2).buf)
        /\ ~Top(t1).hit /\ Top(t2).hit
        /\ Count(depsInputs, norm(Top(t1).buf)) = 1

\* C5: memoization under races.  A directory is listed from the filesystem at
\* most once, exactly once when it is cached, and every caller is returned the
\* listing the cache stores for the normalized path.
ListedOnce ==
    /\ \A k \in DOMAIN fsReads : fsReads[k] = 1
    /\ \A k \in DOMAIN _cache : Count(fsReads, k) = 1
    /\ \A t \in Threads :
            AtReturn(t) =>
                /\ norm(Top(t).buf) \in DOMAIN _cache
                /\ Top(t).entries = _cache[norm(Top(t).buf)]

\* two threads looked up the same missing directory: one listed it, the other
\* was returned the stored listing
RaceReached ==
    \E t1, t2 \in Threads :
        /\ AtReturn(t1) /\ AtReturn(t2)
        /\ norm(Top(t1).buf) = norm(Top(t2).buf)
        /\ ~Top(t1).hit /\ Top(t2).hit
        /\ Top(t1).entries # <<>>
        /\ Top(t1).entries = Top(t2).entries
        /\ fsReads[norm(Top(t1).buf)] = 1

\* entries is strictly increasing by (name, isDir) and holds neither . nor ..
Canonical(entries) ==
    /\ \A i \in 1..(Len(entries) - 1) : EntryLess(entries[i], entries[i + 1])
    /\ \A i \in 1..Len(entries) : ~isDotOrDotDot(entries[i].name)

\* the entries on disk of the directory with the normalized path key, without
\* . and ..; none when there is no such directory
OnDisk(key) ==
    IF key \in DOMAIN fs THEN {e \in fs[key] : ~isDotOrDotDot(e.name)} ELSE {}

\* C16: listings are canonically ordered.  Every listing the cache stores or
\* returns is strictly increasing by (name, isDir) and holds neither . nor ..;
\* the listing stored for a directory holds exactly its entries on disk, which
\* with the order makes it the same sequence for every enumeration order.
ListingsCanonical ==
    /\ [](\A k \in DOMAIN _cache : Canonical(_cache[k]))
    /\ [](\A t \in Threads : AtReturn(t) => Canonical(Top(t).entries))
    /\ [][\A k \in DOMAIN _cache' \ DOMAIN _cache :
            Range(_cache'[k]) = OnDisk(k)]_vars

\* the cache stores the listing of a directory of three entries (which readdir
\* can enumerate, with . and .., in 120 orders), and a caller was returned it
ListingReturned ==
    \E t \in Threads :
        /\ AtReturn(t)
        /\ Top(t).entries = <<File(<<"a">>), Dir(<<"d">>), Dir(<<"e">>)>>
        /\ _cache[norm(Top(t).buf)] = Top(t).entries

\* C17: a cached listing is stable.  An entry of the cache is never replaced,
\* changed or removed, whatever happens on disk and whatever other threads
\* insert, and every caller is returned the entries stored for its path.
CacheStable ==
    /\ [][\A k \in DOMAIN _cache :
            k \in DOMAIN _cache' /\ _cache'[k] = _cache[k]]_vars
    /\ [](\A t \in Threads :
            AtReturn(t) => Top(t).entries = _cache[norm(Top(t).buf)])

\* a caller hit the cache and was returned a listing that differs from what is
\* on disk by now, while the cache holds a second directory as well
StaleHit ==
    \E t \in Threads :
        /\ AtReturn(t)
        /\ Top(t).hit
        /\ Range(Top(t).entries) # OnDisk(norm(Top(t).buf))
        /\ Cardinality(DOMAIN _cache) > 1

(***************************************************************************)
(* Properties of the glob engine (Spec)                                    *)
(***************************************************************************)
\* the top-level glob() call has returned
Returned == globCalls > 0 /\ ~Running(Main)

Matches == DOMAIN delivered

\* C6: synchronous contract.  When glob() has returned, the pool has no queued
\* task and no task in execution, and the callback is not invoked any more.
SynchronousContract ==
    /\ [](Returned => Quiescent)
    /\ [][(~Running(Main) /\ ~Running(Main)') => delivered' = delivered]_vars

\* a recursive glob over the deep tree has returned with a match that a task
\* submitted by a task delivered
DeepWalkReturned ==
    /\ Returned
    /\ globPath = <<"*", "*">>
    /\ fs = TreeDeep
    /\ <<<<"d", "/", "e", "/", "a">>, FALSE>> \in Matches

\* the current glob is head/** with a head that has no wildcard
RecursiveGlob ==
    /\ globCalls > 0
    /\ ~isGlobPattern(split(globPath).head)
    /\ isRecursiveGlob(split(globPath).tail)

\* the listing of a directory as globRecursive gets it, whatever the enumeration
Listing(path) ==
    LET key == norm(JoinRoot(path))
    IN IF key \in DOMAIN fs THEN ListDir(CHOOSE o \in ReaddirOrders(fs[key]) : TRUE)
       ELSE <<>>

\* the matches of globRecursive run depth-first on the calling thread alone
RECURSIVE SequentialWalk(_)
SequentialWalk(path) ==
    {<<path, TRUE>>} \cup
    UNION { {<<join(path, e.name), e.isDir>>} \cup
            (IF e.isDir THEN SequentialWalk(join(path, e.name)) ELSE {})
            : e \in Range(Listing(path)) }

\* C7: scheduling independence.  For every pool size and every interleaving,
\* the set of matches a returned ** glob has delivered is the set of the
\* sequential walk.
SchedulingIndependent ==
    (Returned /\ RecursiveGlob) => Matches = SequentialWalk(split(globPath).head)

\* a ** glob over the deep tree has returned from a pool of more than one worker
ParallelWalkReturned ==
    /\ Returned /\ RecursiveGlob
    /\ poolSize > 1
    /\ fs = TreeDeep
    /\ Cardinality(Matches) > 4

\* the names of the directory entries of the tree
EntryNames == {e.name : e \in UNION {fs[k] : k \in DOMAIN fs}} \ {<<".">>, <<".", ".">>}

\* the chains of names that can lead from a directory to an entry below it
Chains == UNION {[1..n -> EntryNames] : n \in 1..MaxDepth}

RECURSIVE JoinChain(_, _)
JoinChain(head, chain) ==
    IF chain = <<>> THEN head ELSE JoinChain(join(head, Head(chain)), Tail(chain))

\* on disk, chain leads from head through directories to an entry that is a
\* directory (isDir) or is not
InTree(head, chain, isDir) ==
    \A i \in 1..Len(chain) :
        LET parent == norm(JoinRoot(JoinChain(head, SubSeq(chain, 1, i - 1))))
        IN /\ parent \in DOMAIN fs
           /\ [name |-> chain[i], isDir |-> (i < Len(chain) \/ isDir)] \in fs[parent]

\* every file and directory at any depth below head, with its isDir flag
Subtree(head) ==
    { <<JoinChain(head, x[1]), x[2]>> :
        x \in {y \in Chains \X BOOLEAN : InTree(head, y[1], y[2])} }

\* C8: result of the recursive wildcard.  A returned head/** glob has delivered
\* exactly head as a directory and every file and directory below head.
RecursiveResult ==
    (Returned /\ RecursiveGlob) =>
        Matches = {<<split(globPath).head, TRUE>>} \cup Subtree(split(globPath).head)

\* d/** over the deep tree has returned d, d/b, d/e and d/e/a
SubtreeDelivered ==
    /\ Returned
    /\ fs = TreeDeep
    /\ globPath = <<"d", "/", "*", "*">>
    /\ Matches = { <<<<"d">>, TRUE>>, <<<<"d", "/", "b">>, FALSE>>,
                   <<<<"d", "/", "e">>, TRUE>>, <<<<"d", "/", "e", "/", "a">>, FALSE>> }

\* C9: during one glob call no path is delivered to the callback more than once.
DeliveredOnce == \A m \in Matches : delivered[m] = 1

\* the current glob is for a path without a wildcard character
LiteralGlob == globCalls > 0 /\ ~isGlobPattern(globPath)

\* the single match of a literal glob: the path as a file, or head as a directory
\* when the final component is empty
LiteralMatch ==
    IF Len(split(globPath).tail) > 0 THEN <<globPath, FALSE>>
    ELSE <<split(globPath).head, TRUE>>

\* C10: literal-path pass-through.  A glob for a path without wildcard makes no
\* cache lookup, lists no directory, notifies no dependency, leaves the cache
\* unchanged and invokes the callback exactly once, with LiteralMatch.
LiteralPassThrough ==
    /\ [](LiteralGlob =>
            /\ \A t \in Threads :
                    Running(t) => Top(t).op \notin {"lock", "find", "list"}
            /\ (Running(Main) /\ Top(Main).op = "callback") => delivered = <<>>
            /\ (~Running(Main) \/ Top(Main).op = "waitAll") =>
                    /\ Matches = {LiteralMatch}
                    /\ delivered[LiteralMatch] = 1)
    /\ [][(globCalls' > 0 /\ ~isGlobPattern(globPath')) =>
            UNCHANGED <<_cache, _mutex, depsInputs, fsReads, queue>>]_vars

\* a literal glob for a path that does not exist has returned after an earlier
\* glob had filled the cache
LiteralReturned ==
    /\ Returned
    /\ globPath = <<"x", "/", "b">>
    /\ _cache # <<>>
    /\ Matches = {<<<<"x", "/", "b">>, FALSE>>}

\* the current glob is head/tail with a head that has no wildcard, a final
\* component that is a wildcard (of one directory, or **), and no directory
\* on disk at head
MissingDirGlob ==
    /\ globCalls > 0
    /\ ~isGlobPattern(split(globPath).head)
    /\ isGlobPattern(split(globPath).tail)
    /\ norm(JoinRoot(split(globPath).head)) \notin DOMAIN fs

\* C11: missing directories are silent.  During and after a wildcard glob
\* rooted at a directory that does not exist the callback is never invoked,
\* and the call returns with no match.
MissingDirSilent == MissingDirGlob => delivered = <<>>

\* the directory path and everything on disk below it, with isDir flags
RECURSIVE DiskWalk(_)
DiskWalk(path) ==
    {<<path, TRUE>>} \cup
    UNION { {<<join(path, e.name), e.isDir>>} \cup
            (IF e.isDir THEN DiskWalk(join(path, e.name)) ELSE {})
            : e \in OnDisk(norm(JoinRoot(path))) }

\* the entries of the working directory that a head of one wildcard component
\* matches, with their isDir flags (for the head **: the working directory and
\* everything below it)
HeadMatches(head) ==
    IF isRecursiveGlob(head) THEN DiskWalk(<<>>)
    ELSE { <<e.name, e.isDir>> :
             e \in {x \in OnDisk(norm(JoinRoot(<<>>))) : globMatch(x.name, head)} }

\* the directories that the head of the current glob stands for: head itself
\* when it has no wildcard, else the directories it matches
HeadDirs(head) ==
    IF isGlobPattern(head) THEN {m[1] : m \in {x \in HeadMatches(head) : x[2]}}
    ELSE {head}

\* the current glob is head/** with a head of at most one wildcard component
RecursiveTailGlob ==
    /\ globCalls > 0
    /\ isRecursiveGlob(split(globPath).tail)
    /\ isGlobPattern(split(globPath).head) => LastSep(split(globPath).head) = 0

\* C12: ** is recursive wherever it is the final component.  A returned head/**
\* glob, with or without a wildcard in head, has delivered every directory that
\* head matches and everything below it at every depth.
RecursiveEverywhere ==
    (Returned /\ RecursiveTailGlob) =>
        \A p \in HeadDirs(split(globPath).head) :
            ({<<p, TRUE>>} \cup Subtree(p)) \subseteq Matches

(***************************************************************************)
(* Properties of the pattern matcher (MatchSpec)                           *)
(***************************************************************************)
\* the index of the first "]" of pattern at or after index from, 0 if none
ClosingAt(pattern, from) ==
    LET closing == {e \in from..Len(pattern) : pattern[e] = "]"}
    IN IF closing = {} THEN 0 ELSE CHOOSE e \in closing : \A f \in closing : e <= f

\* the pattern syntax: ? is one character, * is any run of characters (the
\* empty one included), [abc] is one listed character, [!abc] one character
\* that is not listed, any other character is itself; path matches pattern
\* when some such assignment consumes both completely
RECURSIVE SyntaxMatch(_, _)
SyntaxMatch(path, pattern) ==
    IF pattern = <<>> THEN path = <<>>
    ELSE LET c == Head(pattern)
         IN CASE c = "?" -> path # <<>> /\ SyntaxMatch(Tail(path), Tail(pattern))
              [] c = "*" -> \E k \in 0..Len(path) :
                                SyntaxMatch(SubSeq(path, k + 1, Len(path)), Tail(pattern))
              [] c = "[" ->
                    LET negated == Len(pattern) > 1 /\ pattern[2] = "!"
                        first == IF negated THEN 3 ELSE 2
                        end == ClosingAt(pattern, first)
                        listed == {pattern[q] : q \in first..(end - 1)}
                    IN /\ end # 0
                       /\ path # <<>>
                       /\ (Head(path) \in listed) # negated
                       /\ SyntaxMatch(Tail(path), SubSeq(pattern, end + 1, Len(pattern)))
              [] OTHER -> /\ path # <<>>
                          /\ Head(path) = c
                          /\ SyntaxMatch(Tail(path), Tail(pattern))

\* C13: the matcher agrees with the pattern syntax.  For every path and every
\* pattern within the bounds, globMatch returns true exactly when the path
\* matches the pattern according to the syntax.
AgreesWithSyntax ==
    matchPc = "done" => matched = SyntaxMatch(matchPath, matchPattern)

\* pattern holds a "[" with no "]" after it
Unterminated(pattern) ==
    \E i \in 1..Len(pattern) :
        /\ pattern[i] = "["
        /\ \A k \in (i + 1)..Len(pattern) : pattern[k] # "]"

\* C14: an unterminated bracket never matches.  For every path, globMatch
\* returns false for a pattern that holds a "[" with no "]" after it, whatever
\* precedes the bracket.
UnterminatedNeverMatches ==
    (matchPc = "done" /\ Unterminated(matchPattern)) => ~matched

\* globMatch has been applied to a path that the pattern would match up to its
\* unterminated bracket, which follows a "*"
UnterminatedAfterStar ==
    /\ matchPc = "done"
    /\ matchPattern = <<"*", "[", "a">>
    /\ matchPath = <<"b", "a">>
    /\ ~matched

(***************************************************************************)
(* A script that calls lua_glob twice with the same pattern arguments in   *)
(* two orders (ScriptSpec)                                                 *)
(***************************************************************************)
\* how often path occurs in the sequence args
Occurrences(args, path) == Cardinality({i \in 1..Len(args) : args[i] = path})

\* two sequences of callback arguments are permutations of each other
Permutation(s, t) ==
    /\ Len(s) = Len(t)
    /\ \A path \in AggPaths : Occurrences(s, path) = Occurrences(t, path)

\* the include callback during the script's call: in the second call only for
\* a path that the first call's arguments delivered and this call has not yet
ScriptInclude(path) ==
    /\ luaCalls = 1 => Len(poolIncludes) + Len(poolExcludes) < MaxScriptMatches
    /\ luaCalls = 2 => Occurrences(inclArgs, path) < Occurrences(firstArgs.incl, path)
    /\ include(path)

ScriptExclude(path) ==
    /\ luaCalls = 1 => Len(poolIncludes) + Len(poolExcludes) < MaxScriptMatches
    /\ luaCalls = 2 => Occurrences(exclArgs, path) < Occurrences(firstArgs.excl, path)
    /\ exclude(path)

\* the argument loop of the second call ends when every argument of the first
\* call has been globbed again
ScriptBuildLists ==
    /\ luaCalls = 2 => /\ Permutation(inclArgs, firstArgs.incl)
                       /\ Permutation(exclArgs, firstArgs.excl)
    /\ BuildLists

\* the script keeps the returned table and calls glob(...) once more, with the
\* same arguments in some order (lua_glob, glob.cc:141-160)
CallAgain ==
    /\ pc = "done"
    /\ luaCalls = 1
    /\ luaCalls' = 2
    /\ firstArgs' = [incl |-> inclArgs, excl |-> exclArgs]
    /\ firstResult' = result
    /\ pc' = "glob"
    /\ pool' = <<>>
    /\ poolIncludes' = <<>>
    /\ poolExcludes' = <<>>
    /\ inclArgs' = <<>>
    /\ exclArgs' = <<>>
    /\ includes' = <<>>
    /\ excludes' = <<>>
    /\ includesIter' = 1
    /\ excludesIter' = 1
    /\ result' = <<>>
    /\ UNCHANGED <<ub, engineVars, matchVars, accVars>>

ScriptNext ==
    \/ \E path \in AggPaths : ScriptInclude(path)
    \/ \E path \in AggPaths : ScriptExclude(path)
    \/ ScriptBuildLists
    \/ MergeStep
    \/ MergeFault
    \/ MergeEnd
    \/ Leftover
    \/ Return
    \/ CallAgain

ScriptSpec == AggSpecInit /\ [][ScriptNext]_vars

\* C15: order independence of aggregation.  A second glob call with the same
\* pattern arguments in another order returns the same list as the first.
OrderIndependent == (luaCalls = 2 /\ pc = "done") => result = firstResult

\* C18: termination of glob.  Under fair scheduling every top-level glob call
\* returns: the recursive fan-out does not deadlock, the pool drains and
\* waitAll lets the caller go.
GlobReturns == Running(Main) ~> ~Running(Main)

\* a glob with ** in its head has returned from a pool of two workers, whose
\* tasks took the cache mutex for the directories they found
FanOutReturned ==
    /\ Returned
    /\ globPath = <<"*", "*", "/", "*">>
    /\ fs = TreeDeep
    /\ poolSize = 2
    /\ <<"d", "/", "e">> \in DOMAIN fsReads
    /\ <<<<"d", "/", "e", "/", "a">>, FALSE>> \in Matches

\* the current glob is head/tail with a head that has no wildcard and a final
\* component that is a wildcard other than **
SingleDirGlob ==
    /\ globCalls > 0
    /\ ~isGlobPattern(split(globPath).head)
    /\ isGlobPattern(split(globPath).tail)
    /\ ~isRecursiveGlob(split(globPath).tail)

\* the entries of the cached listing of head whose name matches tail, each as
\* head joined with the name and with the entry's isDir flag
ListingMatches(head, tail) ==
    LET key == norm(JoinRoot(head))
    IN IF key \in DOMAIN _cache
       THEN { <<join(head, e.name), e.isDir>> :
                e \in {x \in Range(_cache[key]) : globMatch(x.name, tail)} }
       ELSE {}

\* C19: single-directory wildcard.  A glob head/tail with a literal head and a
\* wildcard tail other than ** delivers nothing but matching entries of head's
\* cached listing, none twice, and when it has returned it has delivered every
\* one of them.
SingleDirResult ==
    SingleDirGlob =>
        LET expected == ListingMatches(split(globPath).head, split(globPath).tail)
        IN /\ Matches \subseteq expected
           /\ \A m \in Matches : delivered[m] = 1
           /\ Returned => Matches = expected

\* d/* over the deep tree has returned the file d/b and the directory d/e
SingleDirReturned ==
    /\ Returned
    /\ fs = TreeDeep
    /\ globPath = <<"d", "/", "*">>
    /\ Matches = {<<<<"d", "/", "b">>, FALSE>>, <<<<"d", "/", "e">>, TRUE>>}

\* the current glob is head/tail with a head of one wildcard component
HeadWildcardGlob ==
    /\ globCalls > 0
    /\ isGlobPattern(split(globPath).head)
    /\ LastSep(split(globPath).head) = 0

\* the files that the head of the current glob matches
HeadFiles(head) == {m[1] : m \in {x \in HeadMatches(head) : ~x[2]}}

\* thread t is in a directory lookup
InLookup(t) == Running(t) /\ Top(t).op \in {"lock", "find", "list"}

\* match m is an entry of the directory dir, or dir itself when tail is empty
ChildOf(m, dir, tail) ==
    IF tail = <<>> THEN m[2] /\ norm(m[1]) = norm(dir)
    ELSE /\ split(m[1]).head = dir
         /\ [name |-> split(m[1]).tail, isDir |-> m[2]] \in OnDisk(norm(JoinRoot(dir)))

\* C20: wildcard in an intermediate component.  In a glob head/tail with a
\* wildcard in head, no directory lookup is made for a file that head matches,
\* tail is looked up only in directories that head matches, and every match
\* delivered is a child of such a directory (the directory itself when tail is
\* empty).
TailUnderDirsOnly ==
    HeadWildcardGlob =>
        LET head == split(globPath).head
            tail == split(globPath).tail
        IN /\ \A t \in Threads :
                InLookup(t) =>
                    /\ Top(t).path \notin HeadFiles(head)
                    /\ Top(t).cont = <<>> => Top(t).path \in HeadDirs(head)
           /\ \A k \in DOMAIN fsReads :
                \A f \in HeadFiles(head) : k # norm(JoinRoot(f))
           /\ \A m \in Matches : \E dir \in HeadDirs(head) : ChildOf(m, dir, tail)

\* */b over the deep tree has returned d/b: head matched the file a and the
\* directories d and e, and only the two directories were listed
IntermediateReturned ==
    /\ Returned
    /\ fs = TreeDeep
    /\ globPath = <<"*", "/", "b">>
    /\ Matches = {<<<<"d", "/", "b">>, FALSE>>}
    /\ {<<"d">>, <<"e">>} \subseteq DOMAIN fsReads

(***************************************************************************)
(* Properties of the match accumulator (AccSpec)                           *)
(***************************************************************************)
\* the paths that the entries of a pool list denote, in order
Denoted(list) == [i \in 1..Len(list) |-> mapPool(list[i])]

\* the threads inside a callback for this list that have not recorded yet
Recording(list) == {t \in Threads : frame[t].pc # "idle" /\ frame[t].list = list}

\* a pool list holds one entry for every finished invocation of its callback,
\* and the entries denote the paths these invocations were given
Recorded(poolList, args, list) ==
    /\ Len(poolList) + Cardinality(Recording(list)) = Len(args)
    /\ \A path \in AggPaths :
            Occurrences(Denoted(poolList), path)
                + Cardinality({t \in Recording(list) : frame[t].path = path})
            = Occurrences(args, path)

\* C21: match accumulator under concurrent callbacks.  In every interleaving
\* each invocation of include and exclude records exactly one entry in its own
\* list, no entry is lost, and every entry denotes the bytes of the path that
\* was delivered, also after the pool has grown.
AccumulatorExact ==
    /\ Recorded(poolIncludes, inclArgs, "include")
    /\ Recorded(poolExcludes, exclArgs, "exclude")

\* one thread is about to record an exclude, another waits for the mutex, and
\* the entry an earlier include recorded lies before the bytes appended since
ConcurrentCallbacks ==
    \E t1, t2 \in Threads :
        /\ frame[t1].pc = "emplace" /\ frame[t1].list = "exclude"
        /\ frame[t2].pc = "lock"
        /\ mutex = t1
        /\ Len(poolIncludes) = 1
        /\ mapPool(poolIncludes[1]) = <<"a", "b">>
        /\ Len(pool) > 2

\* the merge loop is about to push the element behind the last element of
\* includes: its branch for a path only in includes increments the iterator
\* first (glob.cc:267-268)
ReadsEnd ==
    /\ pc = "merge"
    /\ includesIter <= Len(includes)
    /\ excludesIter <= Len(excludes)
    /\ compare(includes[includesIter], excludes[excludesIter]) < 0
    /\ includesIter + 1 > Len(includes)

\* C22: bounds of the merge.  The merge loop never reads the includes iterator
\* at the end of the list, and every element of the result is an element of
\* the sorted includes list.
MergeInBounds ==
    /\ ~ReadsEnd
    /\ pc \in {"merge", "rest", "done"} => Range(result) \subseteq Range(includes)

\* C23: the excludes list holds exactly the recorded exclude matches.  Once the
\* lists are built, the excludes vector had, before deduplication, one entry
\* for every exclude match and no other entry, nothing was written outside it,
\* and after sorting and deduplication it is the sorted list of the distinct
\* exclude matches.
ExcludesExact ==
    pc # "glob" =>
        /\ Len(BuildExcludes) = Len(poolExcludes)
        /\ Range(BuildExcludes) \subseteq Range(exclArgs)
        /\ ~ExcludesOverflow
        /\ excludes = UniquePaths(SortPaths(exclArgs))

====
